---- MODULE Spec2Model ----
(***************************************************************************)
(* A model of usdafoods2csv.py: the nutrient priority resolution           *)
(* (Macros.from_food_nutrients), the portion selection                     *)
(* (VolumeWeight.from_food_portion, Food.__init__), the rescaling of the   *)
(* macros to the serving weight, and the dataset driver (main).            *)
(*                                                                         *)
(* Numbers.  Python floats are modelled as exact decimal fixed-point       *)
(* integers (binary representation error is not modelled):                 *)
(*   - a nutrient amount is a count of 0.00001 (so 10.0 is 1000000);       *)
(*   - a gramWeight is a count of 0.01 g (so 120.0 g is 12000);            *)
(*   - a portion amount (quantity) is a whole number;                      *)
(*   - a volume is a count of 0.000001 mL (so 236.5875 mL is 236587500);   *)
(*   - every value that went through round(x, 1) is a count of 0.1.        *)
(* Python values that may be None are one-element tuples, None is <<>>.    *)
(* A Python dict is a function on its keys; a missing key is a key that    *)
(* is not in the DOMAIN.  A nutrient number is a tagged value              *)
(* [type, val], because '268' (str) and 268 (int) are different keys.      *)
(***************************************************************************)
EXTENDS Integers, Sequences, FiniteSets, TLC

VARIABLES
    pc,               \* position of the routine in progress
    raised,           \* the exception that ended it, "none" while there is none
    food_nutrients,   \* from_food_nutrients: its argument
    macro_heaps,      \* from_food_nutrients: category -> heap of (priority, amount)
    n_idx,            \* from_food_nutrients: index of the next measurement
    selected,         \* from_food_nutrients: category -> the tuple heappop returned
    macros,           \* from_food_nutrients: the Macros it returns
    food_data,        \* Food.__init__: the raw food object
    food,             \* Food.__init__: the attributes of self set so far
    macros_per_100_g, \* Food.__init__: the local of that name
    all_food_data,    \* main: the parsed JSON document
    foods,            \* main: the list foods
    f_idx,            \* main: index of the next element of the collection read
    out_opened,       \* main: the output (file or stdout writer) was opened
    out_rows          \* main: the rows written so far, header included

vars == <<pc, raised, food_nutrients, macro_heaps, n_idx, selected, macros,
          food_data, food, macros_per_100_g,
          all_food_data, foods, f_idx, out_opened, out_rows>>

macroVars == <<food_nutrients, macro_heaps, n_idx, selected, macros>>
foodVars == <<food_data, food, macros_per_100_g>>
mainVars == <<all_food_data, foods, f_idx, out_opened, out_rows>>

-----------------------------------------------------------------------------
(* Bounds of the model. *)

MaxNutrients == 3

MaxPortions == 2

MaxFoodNutrients == 2

MaxFoods == 2

-----------------------------------------------------------------------------
(* Python helpers. *)

None == <<>>

Some(x) == <<x>>

\* d with key k removed: a dict that misses k
Without(d, k) == [x \in DOMAIN d \ {k} |-> d[x]]

SeqsUpTo(S, n) == UNION {[1..k -> S] : k \in 0..n}

\* round(n / d, 0) for d > 0, ties to even: what round(x, 1) does on the decimal value
RoundHalfEven(n, d) ==
    LET q == n \div d
        r == n % d
    IN  IF 2 * r < d THEN q
        ELSE IF 2 * r > d THEN q + 1
        ELSE IF q % 2 = 0 THEN q ELSE q + 1

\* round(amount, 1) of a nutrient amount: from 0.00001 to 0.1
RoundAmount(a) == RoundHalfEven(a, 10000)

\* round(weight, 1) of a gram weight: from 0.01 to 0.1
RoundWeight(w) == RoundHalfEven(w, 10)

\* round(volume, 1) of a volume: from 0.000001 to 0.1
RoundVolume(v) == RoundHalfEven(v, 100000)

-----------------------------------------------------------------------------
(* Macros *)

NutrientCategory == {"CALORIES", "FAT", "CARBS", "FIBER", "SUGARS", "PROTEIN"}

NutrientMetadata(d, c, p) == [description |-> d, category |-> c, priority |-> p]

NUTRIENT_NUM_METADATA_MAP ==
    [k \in {"203", "204", "298", "205", "205.2", "291", "293",
            "269.3", "269", "208", "268", "957", "958"} |->
       CASE k = "203"   -> NutrientMetadata("protein", "PROTEIN", 1)
         [] k = "204"   -> NutrientMetadata("total_lipids", "FAT", 1)
         [] k = "298"   -> NutrientMetadata("nlea_fat", "FAT", 2)
         [] k = "205"   -> NutrientMetadata("carbs_by_difference", "CARBS", 1)
         [] k = "205.2" -> NutrientMetadata("carbs_by_summation", "CARBS", 2)
         [] k = "291"   -> NutrientMetadata("fiber_aoac_991_43", "FIBER", 2)
         [] k = "293"   -> NutrientMetadata("fiber_aoac_2011_25", "FIBER", 1)
         [] k = "269.3" -> NutrientMetadata("total_sugars", "SUGARS", 1)
         [] k = "269"   -> NutrientMetadata("nlea_sugars", "SUGARS", 2)
         [] k = "208"   -> NutrientMetadata("cals_kcal", "CALORIES", 1)
         [] k = "268"   -> NutrientMetadata("cals_from_kJ", "CALORIES", 2)
         [] k = "957"   -> NutrientMetadata("cals_atwater_general", "CALORIES", 3)
         [] k = "958"   -> NutrientMetadata("cals_atwater_specific", "CALORIES", 4)]

\* variant: the tuples as (amount, priority), the smallest amount first
TupleLtByAmountFirst(a, b) == a[2] < b[2] \/ (a[2] = b[2] /\ a[1] < b[1])

\* a < b on two (priority, amount) tuples: Python's lexicographic tuple order
TupleLt(a, b) == a[1] < b[1] \/ (a[1] = b[1] /\ a[2] < b[2])

\* heapq._siftdown(heap, 0, pos) with the new item held aside; positions from 1
RECURSIVE siftdown(_, _, _)
siftdown(heap, newitem, pos) ==
    IF pos > 1 /\ TupleLt(newitem, heap[pos \div 2])
    THEN siftdown([heap EXCEPT ![pos] = heap[pos \div 2]], newitem, pos \div 2)
    ELSE [heap EXCEPT ![pos] = newitem]

heappush(heap, item) == siftdown(Append(heap, item), item, Len(heap) + 1)

\* the item heappop returns: the root of the heap (the heap is not used again)
heappop(heap) == heap[1]

\* the sentinel every pool is seeded with
Sentinel == <<10, 0>>

\* variant: the pools left empty
SeedNoSentinel == [c \in NutrientCategory |-> <<>>]

\* lines 85-87: macro_heaps after the seeding loop
SeedHeaps == [c \in NutrientCategory |-> heappush(<<>>, Sentinel)]

\* nutrient_num == 268: true of the int 268 only, never of the str '268'
IsInt268(num) == num.type = "int" /\ num.val = "268"

\* nutrient_num in _NUTRIENT_NUM_METADATA_MAP: the keys of the map are strs
InMetadataMap(num) == num.type = "str" /\ num.val \in DOMAIN NUTRIENT_NUM_METADATA_MAP

\* amount * 0.239, exact on multiples of 0.01
TimesKJFactor(a) == (a \div 1000) * 239 + ((a % 1000) * 239) \div 1000

\* the try block of the loop raises KeyError
NutrientKeyError(fn) ==
    \/ "nutrient" \notin DOMAIN fn
    \/ "number" \notin DOMAIN fn["nutrient"]
    \/ "amount" \notin DOMAIN fn

\* amount as it leaves the try block
ConvertedAmount(fn) ==
    IF IsInt268(fn["nutrient"]["number"])
    THEN TimesKJFactor(fn["amount"])
    ELSE fn["amount"]

\* variant: a missing field read as a default (dict.get) instead of skipping
PushNutrientZeroOnKeyError(heaps, fn) ==
    LET num == IF "nutrient" \in DOMAIN fn /\ "number" \in DOMAIN fn["nutrient"]
               THEN fn["nutrient"]["number"] ELSE [type |-> "none", val |-> ""]
        amount == IF "amount" \in DOMAIN fn THEN fn["amount"] ELSE 0
    IN  IF ~InMetadataMap(num) THEN heaps
        ELSE LET metadata == NUTRIENT_NUM_METADATA_MAP[num.val]
             IN  [heaps EXCEPT ![metadata.category] =
                     heappush(@, <<metadata.priority, amount>>)]

\* lines 90-102: one iteration of the loop over food_nutrients
PushNutrient(heaps, fn) ==
    IF NutrientKeyError(fn) THEN heaps
    ELSE IF ~InMetadataMap(fn["nutrient"]["number"]) THEN heaps
    ELSE LET metadata == NUTRIENT_NUM_METADATA_MAP[fn["nutrient"]["number"].val]
         IN  [heaps EXCEPT ![metadata.category] =
                 heappush(@, <<metadata.priority, ConvertedAmount(fn)>>)]

RECURSIVE PushAll(_, _, _)
PushAll(heaps, fns, i) ==
    IF i > Len(fns) THEN heaps ELSE PushAll(PushNutrient(heaps, fns[i]), fns, i + 1)

\* lines 104-109: some pool is empty, heappop raises IndexError
PopRaises(heaps) == \E c \in NutrientCategory : Len(heaps[c]) = 0

PopAll(heaps) == [c \in NutrientCategory |-> heappop(heaps[c])]

\* variant: no Atwater fallback
CaloriesNoFallback(sel) == sel["CALORIES"][2]

\* lines 104-111: the calories before rounding
Calories(sel) ==
    IF sel["CALORIES"][2] = 0
    THEN sel["PROTEIN"][2] * 4 + sel["CARBS"][2] * 4 + sel["FAT"][2] * 9
    ELSE sel["CALORIES"][2]

\* lines 113-118
MakeMacros(sel) ==
    [calories |-> RoundAmount(Calories(sel)),
     fat      |-> RoundAmount(sel["FAT"][2]),
     carbs    |-> RoundAmount(sel["CARBS"][2]),
     fiber    |-> RoundAmount(sel["FIBER"][2]),
     sugars   |-> RoundAmount(sel["SUGARS"][2]),
     protein  |-> RoundAmount(sel["PROTEIN"][2])]

\* Macros.from_food_nutrients as a function: [raised, macros]
from_food_nutrients(fns) ==
    LET heaps == PushAll(SeedHeaps, fns, 1)
    IN  IF PopRaises(heaps)
        THEN [raised |-> "IndexError"]
        ELSE [raised |-> "none", macros |-> MakeMacros(PopAll(heaps))]

-----------------------------------------------------------------------------
(* Inputs of from_food_nutrients. *)

PyStr(v) == [type |-> "str", val |-> v]

PyInt(v) == [type |-> "int", val |-> v]

FoodNutrient(num, amount) ==
    [type |-> "FoodNutrient", nutrient |-> [id |-> 1, number |-> num], amount |-> amount]

NutrientInputs ==
    { FoodNutrient(PyStr("203"), 1000000),     \* protein 10.0
      FoodNutrient(PyStr("203"), 25000),       \* protein 0.25
      FoodNutrient(PyStr("204"), 500000),      \* fat 5.0
      FoodNutrient(PyStr("298"), 600000),      \* fat 6.0, rank 2
      FoodNutrient(PyStr("205"), 2000000),     \* carbs 20.0
      FoodNutrient(PyStr("291"), 200000),      \* fiber 2.0, rank 2
      FoodNutrient(PyStr("293"), 325000),      \* fiber 3.25, rank 1
      FoodNutrient(PyStr("208"), 0),           \* kcal 0.0
      FoodNutrient(PyStr("208"), 5225000),     \* kcal 52.25
      FoodNutrient(PyStr("268"), 100000000),   \* kJ 1000.0, number a str
      FoodNutrient(PyInt("268"), 100000000),   \* kJ 1000.0, number an int
      FoodNutrient(PyStr("999"), 700000),      \* not in the table
      Without(FoodNutrient(PyStr("293"), 900000), "amount"),
      Without(FoodNutrient(PyStr("208"), 900000), "nutrient"),
      [FoodNutrient(PyStr("204"), 900000) EXCEPT !.nutrient = [id |-> 1]] }

-----------------------------------------------------------------------------
(* from_food_nutrients, step by step. *)

InitMacros ==
    /\ pc = "seed"
    /\ raised = "none"
    /\ food_nutrients \in SeqsUpTo(NutrientInputs, MaxNutrients)
    /\ macro_heaps = [c \in NutrientCategory |-> <<>>]
    /\ n_idx = 1
    /\ selected = <<>>
    /\ macros = <<>>
    /\ food_data = <<>>
    /\ food = <<>>
    /\ macros_per_100_g = <<>>
    /\ all_food_data = <<>>
    /\ foods = <<>>
    /\ f_idx = 1
    /\ out_opened = FALSE
    /\ out_rows = <<>>

\* lines 85-87
Seed ==
    /\ pc = "seed"
    /\ macro_heaps' = SeedHeaps
    /\ pc' = "loop"
    /\ UNCHANGED <<raised, food_nutrients, n_idx, selected, macros, foodVars, mainVars>>

\* lines 89-102, one measurement
Push ==
    /\ pc = "loop"
    /\ n_idx <= Len(food_nutrients)
    /\ macro_heaps' = PushNutrient(macro_heaps, food_nutrients[n_idx])
    /\ n_idx' = n_idx + 1
    /\ UNCHANGED <<pc, raised, food_nutrients, selected, macros, foodVars, mainVars>>

\* lines 104-118
Pop ==
    /\ pc = "loop"
    /\ n_idx > Len(food_nutrients)
    /\ IF PopRaises(macro_heaps)
       THEN /\ raised' = "IndexError"
            /\ pc' = "raised"
            /\ UNCHANGED <<selected, macros>>
       ELSE /\ selected' = PopAll(macro_heaps)
            /\ macros' = MakeMacros(PopAll(macro_heaps))
            /\ pc' = "done"
            /\ UNCHANGED raised
    /\ UNCHANGED <<food_nutrients, macro_heaps, n_idx, foodVars, mainVars>>

NextMacros == Seed \/ Push \/ Pop

SpecMacros == InitMacros /\ [][NextMacros]_vars

-----------------------------------------------------------------------------
(* Properties of from_food_nutrients (SpecMacros). *)

\* the measurement has the three fields the loop reads
WellFormed(fn) ==
    /\ {"nutrient", "amount"} \subseteq DOMAIN fn
    /\ "number" \in DOMAIN fn["nutrient"]

\* the measurement's number is a key of the descriptor table
Recognised(fn) ==
    /\ WellFormed(fn)
    /\ fn["nutrient"]["number"].type = "str"
    /\ fn["nutrient"]["number"].val \in DOMAIN NUTRIENT_NUM_METADATA_MAP

RankOf(fn) == NUTRIENT_NUM_METADATA_MAP[fn["nutrient"]["number"].val].priority

CategoryOf(fn) == NUTRIENT_NUM_METADATA_MAP[fn["nutrient"]["number"].val].category

\* the positions of the recognised measurements of category c
RecognisedIdx(c) ==
    {i \in 1..Len(food_nutrients) :
        Recognised(food_nutrients[i]) /\ CategoryOf(food_nutrients[i]) = c}

FieldOf(c) ==
    CASE c = "CALORIES" -> "calories"
      [] c = "FAT"      -> "fat"
      [] c = "CARBS"    -> "carbs"
      [] c = "FIBER"    -> "fiber"
      [] c = "SUGARS"   -> "sugars"
      [] c = "PROTEIN"  -> "protein"

\* C1: of the recognised measurements of one category, one with the lowest
\* priority number is selected, wherever it stands in the list: a measurement
\* of a higher priority number is never preferred to one of a lower number, the
\* selected amount is the amount of a measurement of the lowest number, and
\* (for the five categories without a fallback) the resolved value is that
\* amount rounded to one decimal.
C1_LowestPriorityWins ==
    pc = "done" =>
        \A c \in NutrientCategory :
            \A i \in RecognisedIdx(c) :
                /\ selected[c][1] <= RankOf(food_nutrients[i])
                /\ (\A j \in RecognisedIdx(c) :
                        RankOf(food_nutrients[i]) <= RankOf(food_nutrients[j]))
                   => /\ selected[c][1] = RankOf(food_nutrients[i])
                      /\ \E k \in RecognisedIdx(c) :
                            /\ RankOf(food_nutrients[k]) = RankOf(food_nutrients[i])
                            /\ selected[c][2] = food_nutrients[k]["amount"]
                      /\ c # "CALORIES" =>
                            macros[FieldOf(c)] = RoundAmount(selected[c][2])

\* fiber '291' (rank 2, 2.0) stands before fiber '293' (rank 1, 3.25), and 3.25 won
C1_Witness ==
    /\ pc = "done"
    /\ Len(food_nutrients) = 2
    /\ food_nutrients[1] = FoodNutrient(PyStr("291"), 200000)
    /\ food_nutrients[2] = FoodNutrient(PyStr("293"), 325000)
    /\ selected["FIBER"] = <<1, 325000>>
    /\ macros["fiber"] = 32

CalorieCodes == {"208", "268", "957", "958"}

\* C2: a food whose only calorie measurement carries the code 268 (amount A)
\* resolves its calories to round(A * 0.239, 1).
C2_KilojoulesConverted ==
    pc = "done" =>
        \A i \in 1..Len(food_nutrients) :
            ( /\ WellFormed(food_nutrients[i])
              /\ food_nutrients[i]["nutrient"]["number"].val = "268"
              /\ \A j \in 1..Len(food_nutrients) \ {i} :
                    ~ ( /\ WellFormed(food_nutrients[j])
                        /\ food_nutrients[j]["nutrient"]["number"].val \in CalorieCodes ) )
            => macros["calories"] = RoundAmount(TimesKJFactor(food_nutrients[i]["amount"]))

\* C3: the calories are the Atwater estimate of the selected, unrounded protein,
\* carbs and fat when the selected calories entry is 0.0, and the selected
\* entry's amount otherwise, rounded to one decimal either way; protein 10.0,
\* fat 5.0 and carbs 20.0 without a calorie measurement give 165.0.
C3_AtwaterFallback ==
    pc = "done" =>
        /\ selected["CALORIES"][2] = 0 =>
              macros["calories"] =
                  RoundAmount(selected["PROTEIN"][2] * 4 + selected["CARBS"][2] * 4
                              + selected["FAT"][2] * 9)
        /\ selected["CALORIES"][2] # 0 =>
              macros["calories"] = RoundAmount(selected["CALORIES"][2])
        /\ ( /\ RecognisedIdx("CALORIES") = {}
             /\ selected["PROTEIN"][2] = 1000000
             /\ selected["FAT"][2] = 500000
             /\ selected["CARBS"][2] = 2000000 )
           => macros["calories"] = 1650

\* protein 10.0, fat 5.0, carbs 20.0 and no calorie measurement: 165.0
C3_Witness ==
    /\ pc = "done"
    /\ food_nutrients = << FoodNutrient(PyStr("203"), 1000000),
                           FoodNutrient(PyStr("204"), 500000),
                           FoodNutrient(PyStr("205"), 2000000) >>
    /\ selected["CALORIES"] = Sentinel
    /\ macros["calories"] = 1650

\* C10: every priority of the descriptor table is below the sentinel's 10, no
\* pool is empty when its value is selected (heappop never raises), all
\* six fields of the result are set, the sentinel is the selected entry of a
\* category exactly when the list has no recognised measurement of it, and the
\* empty list resolves to 0.0 six times.
C10_SentinelInvariant ==
    /\ raised # "IndexError"
    /\ \A k \in DOMAIN NUTRIENT_NUM_METADATA_MAP :
          NUTRIENT_NUM_METADATA_MAP[k].priority < Sentinel[1]
    /\ pc = "loop" => \A c \in NutrientCategory : Len(macro_heaps[c]) >= 1
    /\ pc = "done" =>
        /\ DOMAIN macros = {FieldOf(c) : c \in NutrientCategory}
        /\ \A c \in NutrientCategory :
              (selected[c] = Sentinel) <=> (RecognisedIdx(c) = {})
        /\ food_nutrients = <<>> => \A c \in NutrientCategory : macros[FieldOf(c)] = 0

\* a list with protein only: protein from the measurement, fiber from the sentinel
C10_Witness ==
    /\ pc = "done"
    /\ food_nutrients = << FoodNutrient(PyStr("203"), 1000000) >>
    /\ selected["PROTEIN"] = <<1, 1000000>>
    /\ selected["FIBER"] = Sentinel
    /\ macros["fiber"] = 0

-----------------------------------------------------------------------------
(* Strings that are compared (names, unit abbreviations) are tuples of code *)
(* points, so that str < str can be computed.                               *)

\* a < b on two strs: lexicographic on code points, a proper prefix is smaller
StrLt(a, b) ==
    \E k \in 1..Len(b) :
        /\ \A m \in 1..(k - 1) : m <= Len(a) /\ a[m] = b[m]
        /\ (k > Len(a) \/ a[k] < b[k])

Cup == <<99, 117, 112>>

Tbsp == <<116, 98, 115, 112>>

Tsp == <<116, 115, 112>>

Ml == <<109, 108>>

Lb == <<108, 98>>

-----------------------------------------------------------------------------
(* VolumeWeight *)

\* mL per unit, in 0.000001 mL: cup, tbsp, tsp, mL
PORTION_UNIT_ML_MAP ==
    [u \in {1000, 1001, 1002, 1004} |->
        CASE u = 1000 -> 236587500
          [] u = 1001 -> 14786720
          [] u = 1002 -> 4928906
          [] u = 1004 -> 1000000]

\* the try block of from_food_portion raises KeyError
PortionKeyError(fp) ==
    \/ "measureUnit" \notin DOMAIN fp
    \/ "id" \notin DOMAIN fp["measureUnit"]
    \/ "amount" \notin DOMAIN fp
    \/ "abbreviation" \notin DOMAIN fp["measureUnit"]
    \/ "gramWeight" \notin DOMAIN fp

\* lines 44-48: the condition under which a VolumeWeight is built
PortionAccepted(fp) ==
    /\ fp["measureUnit"]["id"] \in DOMAIN PORTION_UNIT_ML_MAP
    /\ fp["amount"] # None
    /\ fp["amount"][1] > 0
    /\ fp["gramWeight"] # None
    /\ fp["gramWeight"][1] > 0

\* VolumeWeight.from_food_portion: None, or Some VolumeWeight
from_food_portion(fp) ==
    IF PortionKeyError(fp) THEN None
    ELSE IF PortionAccepted(fp)
    THEN Some([volume     |-> PORTION_UNIT_ML_MAP[fp["measureUnit"]["id"]] * fp["amount"][1],
               weight     |-> fp["gramWeight"][1],
               quantity   |-> fp["amount"][1],
               descriptor |-> fp["measureUnit"]["abbreviation"]])
    ELSE None

\* variant: the order with weight as the first field
VWGtByWeight(a, b) ==
    \/ a.weight > b.weight
    \/ a.weight = b.weight /\ a.volume > b.volume

\* a > b on two VolumeWeights: dataclass(order=True) compares the field tuples
VWGt(a, b) ==
    \/ a.volume > b.volume
    \/ a.volume = b.volume /\ a.weight > b.weight
    \/ a.volume = b.volume /\ a.weight = b.weight /\ a.quantity > b.quantity
    \/ /\ a.volume = b.volume /\ a.weight = b.weight /\ a.quantity = b.quantity
       /\ StrLt(b.descriptor, a.descriptor)

\* max() over vs[i..]: the first of the greatest items
RECURSIVE MaxFrom(_, _, _)
MaxFrom(vs, i, best) ==
    IF i > Len(vs) THEN best
    ELSE MaxFrom(vs, i + 1, IF VWGt(vs[i], best) THEN vs[i] ELSE best)

\* lines 133-134 and the filter of line 135: the VolumeWeights that are not None
Candidates(portions) ==
    LET volume_weights == [i \in 1..Len(portions) |-> from_food_portion(portions[i])]
        kept == SelectSeq(volume_weights, LAMBDA v : v # None)
    IN  [i \in 1..Len(kept) |-> kept[i][1]]

\* lines 129-140: self.weight and self.volume
ResolvePortion(fd) ==
    IF "foodPortions" \notin DOMAIN fd
    THEN [weight |-> 1000, volume |-> None]
    ELSE LET cands == Candidates(fd["foodPortions"])
         IN  IF Len(cands) = 0
             THEN [weight |-> 1000, volume |-> None]
             ELSE LET max_volume_weight == MaxFrom(cands, 2, cands[1])
                  IN  [weight |-> RoundWeight(max_volume_weight.weight),
                       volume |-> Some(RoundVolume(max_volume_weight.volume))]

-----------------------------------------------------------------------------
(* Food *)

MacroFields == {"calories", "fat", "carbs", "fiber", "sugars", "protein"}

\* round(m * (weight / 100.0), 1) on values in 0.1
ScaleField(m, weight) == RoundHalfEven(m * weight, 1000)

\* variant: the scale factor inverted, 100.0 / weight
ScaleMacrosInverted(m, weight) ==
    IF weight # 1000
    THEN [f \in MacroFields |-> RoundHalfEven(m[f] * 1000, weight)]
    ELSE m

\* lines 143-152: self.macros
ScaleMacros(m, weight) ==
    IF weight # 1000
    THEN [f \in MacroFields |-> ScaleField(m[f], weight)]
    ELSE m

\* lines 127-128 raise KeyError
FieldsKeyError(fd) == "fdcId" \notin DOMAIN fd \/ "description" \notin DOMAIN fd

\* variant: a missing foodNutrients read as an empty list
NutrientsOfOrEmpty(fd) ==
    IF "foodNutrients" \in DOMAIN fd
    THEN from_food_nutrients(fd["foodNutrients"])
    ELSE from_food_nutrients(<<>>)

\* line 142: Macros.from_food_nutrients(food_data['foodNutrients'])
NutrientsOf(fd) ==
    IF "foodNutrients" \in DOMAIN fd
    THEN from_food_nutrients(fd["foodNutrients"])
    ELSE [raised |-> "KeyError"]

\* variant: no required field, every lookup with a default
NewFoodLenient(source, fd) ==
    LET portion == ResolvePortion(fd)
        per100 == NutrientsOfOrEmpty(fd)
    IN  [raised |-> "none",
         food   |-> [source |-> source,
                     fdc_id |-> IF "fdcId" \in DOMAIN fd THEN fd["fdcId"] ELSE 0,
                     name   |-> IF "description" \in DOMAIN fd
                                THEN fd["description"] ELSE <<>>,
                     weight |-> portion.weight,
                     volume |-> portion.volume,
                     macros |-> ScaleMacros(per100.macros, portion.weight)]]

\* Food(source, food_data) as a function: [raised, food]
NewFood(source, fd) ==
    IF FieldsKeyError(fd) THEN [raised |-> "KeyError"]
    ELSE LET portion == ResolvePortion(fd)
             per100 == NutrientsOf(fd)
         IN  IF per100.raised # "none" THEN [raised |-> per100.raised]
             ELSE [raised |-> "none",
                   food   |-> [source |-> source,
                               fdc_id |-> fd["fdcId"],
                               name   |-> fd["description"],
                               weight |-> portion.weight,
                               volume |-> portion.volume,
                               macros |-> ScaleMacros(per100.macros, portion.weight)]]

\* Food.nutrition_record
nutrition_record(f) ==
    << f.name, f.weight, f.volume, f.macros["calories"], f.macros["fat"],
       f.macros["carbs"], f.macros["fiber"], f.macros["sugars"], f.macros["protein"] >>

-----------------------------------------------------------------------------
(* Inputs of Food.__init__. *)

FoodPortion(unit_id, abbreviation, amount, gramWeight) ==
    [sequenceNumber |-> 1,
     measureUnit    |-> [name |-> abbreviation, id |-> unit_id, abbreviation |-> abbreviation],
     amount         |-> amount,
     gramWeight     |-> gramWeight]

OneCup == FoodPortion(1000, Cup, Some(1), Some(12000))

OneTbsp == FoodPortion(1001, Tbsp, Some(1), Some(1500))

PortionInputs ==
    { OneCup,                                             \* 1 cup, 120 g
      OneTbsp,                                            \* 1 tbsp, 15 g
      FoodPortion(1000, Cup, Some(1), Some(13000)),       \* 1 cup, 130 g: same volume
      FoodPortion(1004, Ml, Some(250), Some(10004)),      \* 250 mL, 100.04 g
      FoodPortion(1002, Tsp, Some(3), Some(1525)),        \* 3 tsp, 15.25 g
      FoodPortion(9999, Lb, Some(1), Some(45360)),        \* not a volume unit
      FoodPortion(1000, Cup, Some(0), Some(12000)),       \* amount 0
      FoodPortion(1000, Cup, Some(2), None),              \* gramWeight null
      Without(FoodPortion(1000, Cup, Some(2), Some(24000)), "measureUnit"),
      Without(FoodPortion(1000, Cup, Some(2), Some(24000)), "amount"),
      Without(FoodPortion(1000, Cup, Some(2), Some(24000)), "gramWeight"),
      [FoodPortion(1000, Cup, Some(2), Some(24000)) EXCEPT
          !.measureUnit = Without(@, "id")],
      [FoodPortion(1000, Cup, Some(2), Some(24000)) EXCEPT
          !.measureUnit = Without(@, "abbreviation")] }

Protein1234 == FoodNutrient(PyStr("203"), 1234000)

Kcal5225 == FoodNutrient(PyStr("208"), 5225000)

NoAmount == Without(FoodNutrient(PyStr("208"), 900000), "amount")

NoNutrient == Without(FoodNutrient(PyStr("203"), 900000), "nutrient")

NoNumber == [FoodNutrient(PyStr("204"), 900000) EXCEPT !.nutrient = [id |-> 1]]

FoodNutrientInputs == { Protein1234, Kcal5225, NoAmount, NoNutrient, NoNumber }

FoodNutrientLists == SeqsUpTo(FoodNutrientInputs, MaxFoodNutrients)

NoMeasureUnit == Without(FoodPortion(1000, Cup, Some(2), Some(24000)), "measureUnit")

BasePortionLists ==
    { <<>>,
      << OneCup, OneTbsp >>,
      << FoodPortion(1004, Ml, Some(250), Some(10004)) >>,
      << NoMeasureUnit, OneCup >> }

BaseNutrientLists ==
    { <<>>,
      << Protein1234, Kcal5225 >>,
      << NoAmount, Kcal5225 >> }

RawFood(ns, ps) ==
    [dataType |-> "Foundation", fdcId |-> 1, description |-> <<65>>,
     foodNutrients |-> ns, foodPortions |-> ps]

\* every portion list with a few nutrient lists, every nutrient list with a few
\* portion lists
FullFoodInputs ==
    { RawFood(ns, ps) : ns \in BaseNutrientLists,
                        ps \in SeqsUpTo(PortionInputs, MaxPortions) }
    \cup { RawFood(ns, ps) : ns \in FoodNutrientLists, ps \in BasePortionLists }

FoodInputs ==
    FullFoodInputs
    \cup { Without(fd, k) : fd \in FullFoodInputs,
                            k \in {"foodPortions", "foodNutrients"} }
    \cup { Without(fd, k) : fd \in { x \in FullFoodInputs : Len(x["foodPortions"]) <= 1 },
                            k \in {"fdcId", "description"} }

-----------------------------------------------------------------------------
(* Food.__init__, step by step. *)

InitFood ==
    /\ pc = "fields"
    /\ raised = "none"
    /\ food_data \in FoodInputs
    /\ food = <<>>
    /\ macros_per_100_g = <<>>
    /\ food_nutrients = <<>>
    /\ macro_heaps = <<>>
    /\ n_idx = 1
    /\ selected = <<>>
    /\ macros = <<>>
    /\ all_food_data = <<>>
    /\ foods = <<>>
    /\ f_idx = 1
    /\ out_opened = FALSE
    /\ out_rows = <<>>

\* lines 126-130
FoodFields ==
    /\ pc = "fields"
    /\ IF FieldsKeyError(food_data)
       THEN /\ raised' = "KeyError"
            /\ pc' = "raised"
            /\ UNCHANGED food
       ELSE /\ food' = [source |-> "Foundation",
                        fdc_id |-> food_data["fdcId"],
                        name   |-> food_data["description"],
                        weight |-> 1000,
                        volume |-> None]
            /\ pc' = "portions"
            /\ UNCHANGED raised
    /\ UNCHANGED <<food_data, macros_per_100_g, macroVars, mainVars>>

\* lines 132-140
FoodPortions ==
    /\ pc = "portions"
    /\ food' = [food EXCEPT !.weight = ResolvePortion(food_data).weight,
                            !.volume = ResolvePortion(food_data).volume]
    /\ pc' = "nutrients"
    /\ UNCHANGED <<raised, food_data, macros_per_100_g, macroVars, mainVars>>

\* line 142
FoodNutrients ==
    /\ pc = "nutrients"
    /\ LET r == NutrientsOf(food_data)
       IN  IF r.raised # "none"
           THEN /\ raised' = r.raised
                /\ pc' = "raised"
                /\ UNCHANGED macros_per_100_g
           ELSE /\ macros_per_100_g' = r.macros
                /\ pc' = "scale"
                /\ UNCHANGED raised
    /\ UNCHANGED <<food_data, food, macroVars, mainVars>>

\* lines 143-152
FoodScale ==
    /\ pc = "scale"
    /\ food' = food @@ [macros |-> ScaleMacros(macros_per_100_g, food.weight)]
    /\ pc' = "done"
    /\ UNCHANGED <<raised, food_data, macros_per_100_g, macroVars, mainVars>>

NextFood == FoodFields \/ FoodPortions \/ FoodNutrients \/ FoodScale

SpecFood == InitFood /\ [][NextFood]_vars

-----------------------------------------------------------------------------
(* Properties of Food.__init__ (SpecFood). *)

PortionsOf(fd) == IF "foodPortions" \in DOMAIN fd THEN fd["foodPortions"] ELSE <<>>

\* the portion record misses one of the five fields from_food_portion reads
PortionMissesField(fp) ==
    \/ {"measureUnit", "amount", "gramWeight"} \ DOMAIN fp # {}
    \/ {"id", "abbreviation"} \ DOMAIN fp["measureUnit"] # {}

\* the portion is a candidate: a volume unit, amount and gramWeight above zero
IsCandidate(fp) ==
    /\ ~PortionMissesField(fp)
    /\ fp["measureUnit"]["id"] \in {1000, 1001, 1002, 1004}
    /\ fp["amount"] # None /\ fp["amount"][1] > 0
    /\ fp["gramWeight"] # None /\ fp["gramWeight"][1] > 0

\* (volume, weight, quantity, descriptor) of a candidate
SortKey(fp) ==
    [volume     |-> PORTION_UNIT_ML_MAP[fp["measureUnit"]["id"]] * fp["amount"][1],
     weight     |-> fp["gramWeight"][1],
     quantity   |-> fp["amount"][1],
     descriptor |-> fp["measureUnit"]["abbreviation"]]

\* candidate p comes after candidate q: greater volume, ties by weight, quantity, descriptor
Outranks(p, q) ==
    LET a == SortKey(p)
        b == SortKey(q)
    IN  \/ a.volume > b.volume
        \/ a.volume = b.volume /\ a.weight > b.weight
        \/ a.volume = b.volume /\ a.weight = b.weight /\ a.quantity > b.quantity
        \/ /\ a.volume = b.volume /\ a.weight = b.weight /\ a.quantity = b.quantity
           /\ StrLt(b.descriptor, a.descriptor)

PortionsResolved == pc \in {"nutrients", "scale", "done"}

\* C4: once the portions are resolved, the food's weight and volume are those of
\* a candidate no other candidate outranks, each rounded to one decimal; without
\* a candidate (no list, an empty list, every portion rejected) they are 100.0
\* and None.
C4_PortionSelection ==
    PortionsResolved =>
        LET ps == PortionsOf(food_data)
            cands == {i \in 1..Len(ps) : IsCandidate(ps[i])}
        IN  IF cands = {}
            THEN food.weight = 1000 /\ food.volume = None
            ELSE \E i \in cands :
                    /\ \A j \in cands : ~Outranks(ps[j], ps[i])
                    /\ food.weight = RoundWeight(ps[i]["gramWeight"][1])
                    /\ food.volume = Some(RoundVolume(SortKey(ps[i]).volume))

\* a tablespoon before a cup: the cup (236.5875 mL, 120 g) is selected
C4_Witness ==
    /\ pc = "done"
    /\ PortionsOf(food_data) = << OneTbsp, OneCup >>
    /\ food.weight = 1200
    /\ food.volume = Some(2366)

\* C5: a food whose rounded weight is not 100.0 has every macro equal to
\* round(M * weight / 100.0, 1), M the rounded per-100g value; a food whose
\* weight is 100.0 (by default or by its portion) has the per-100g macros
\* themselves; one cup of 120 g and one tablespoon of 15 g give weight 120.0
\* and round(M * 1.2, 1).
C5_Rescaling ==
    pc = "done" =>
        /\ macros_per_100_g = from_food_nutrients(food_data["foodNutrients"]).macros
        /\ food.weight # 1000 =>
              \A f \in MacroFields :
                  food.macros[f] = RoundHalfEven(macros_per_100_g[f] * food.weight, 1000)
        /\ food.weight = 1000 => food.macros = macros_per_100_g
        /\ PortionsOf(food_data) = << OneCup, OneTbsp >> =>
              /\ food.weight = 1200
              /\ \A f \in MacroFields :
                    food.macros[f] = RoundHalfEven(macros_per_100_g[f] * 12, 10)

\* cup and tablespoon, protein 12.34 and 52.25 kcal per 100 g: 14.8 and 62.6 per 120 g
C5_Witness ==
    /\ pc = "done"
    /\ PortionsOf(food_data) = << OneCup, OneTbsp >>
    /\ food_data["foodNutrients"] = << Protein1234, Kcal5225 >>
    /\ macros_per_100_g["protein"] = 123
    /\ macros_per_100_g["calories"] = 522
    /\ food.macros["protein"] = 148
    /\ food.macros["calories"] = 626

\* C6 as stated: with fdcId and description present, the construction of a Food
\* never raises, whichever of foodPortions and foodNutrients is absent.
C6_NeverAborts ==
    ~FieldsKeyError(food_data) => raised = "none"

\* C6 as amended: with fdcId and description present, the construction raises
\* nothing when foodNutrients is present; a missing foodPortions leaves weight
\* 100.0 and volume None; a missing foodNutrients ends the construction with
\* KeyError before any macros are set; an empty foodNutrients gives 0.0 six times.
C6_MissingCollections ==
    ~FieldsKeyError(food_data) =>
        /\ "foodNutrients" \in DOMAIN food_data => raised = "none"
        /\ ("foodPortions" \notin DOMAIN food_data /\ pc \in {"nutrients", "scale", "done", "raised"})
              => food.weight = 1000 /\ food.volume = None
        /\ "foodNutrients" \notin DOMAIN food_data =>
              /\ pc \notin {"scale", "done"}
              /\ pc = "raised" => raised = "KeyError"
              /\ "macros" \notin DOMAIN food
        /\ (pc = "done" /\ food_data["foodNutrients"] = <<>>) =>
              \A f \in MacroFields : food.macros[f] = 0

\* a food with portions but without foodNutrients: KeyError after the portions
C6_Witness ==
    /\ pc = "raised"
    /\ raised = "KeyError"
    /\ ~FieldsKeyError(food_data)
    /\ "foodNutrients" \notin DOMAIN food_data
    /\ PortionsOf(food_data) = << OneCup >>
    /\ food.weight = 1200

RemoveAt(seq, i) == SubSeq(seq, 1, i - 1) \o SubSeq(seq, i + 1, Len(seq))

\* C7: a measurement or a portion that misses a field never raises, and the Food
\* built is the Food that the same input without that entry gives.
C7_BadEntriesSkipped ==
    /\ pc = "raised" =>
          FieldsKeyError(food_data) \/ "foodNutrients" \notin DOMAIN food_data
    /\ pc = "done" =>
          /\ \A i \in 1..Len(food_data["foodNutrients"]) :
                ~WellFormed(food_data["foodNutrients"][i]) =>
                    NewFood("Foundation",
                            [food_data EXCEPT !["foodNutrients"] = RemoveAt(@, i)])
                        = [raised |-> "none", food |-> food]
          /\ \A i \in 1..Len(PortionsOf(food_data)) :
                PortionMissesField(food_data["foodPortions"][i]) =>
                    NewFood("Foundation",
                            [food_data EXCEPT !["foodPortions"] = RemoveAt(@, i)])
                        = [raised |-> "none", food |-> food]

\* a measurement without amount before a good one, a portion that misses a field
\* before a cup: the food is the one of the good entries
C7_Witness ==
    /\ pc = "done"
    /\ food_data["foodNutrients"] = << NoAmount, Kcal5225 >>
    /\ Len(PortionsOf(food_data)) = 2
    /\ PortionMissesField(food_data["foodPortions"][1])
    /\ food_data["foodPortions"][2] = OneCup
    /\ food.weight = 1200
    /\ food.macros["calories"] = 626

-----------------------------------------------------------------------------
(* main *)

\* Food.__lt__
FoodLt(a, b) == StrLt(a.name, b.name)

\* x put before the first element of the sorted list fs that x is less than
InsertSorted(fs, x) ==
    LET after == {i \in 1..Len(fs) : FoodLt(x, fs[i])}
        at == IF after = {} THEN Len(fs) + 1
              ELSE CHOOSE i \in after : \A j \in after : i <= j
    IN  SubSeq(fs, 1, at - 1) \o <<x>> \o SubSeq(fs, at, Len(fs))

RECURSIVE SortFrom(_, _, _)
SortFrom(fs, i, acc) ==
    IF i > Len(fs) THEN acc ELSE SortFrom(fs, i + 1, InsertSorted(acc, fs[i]))

\* variant: the list left in input order
NoSort(fs) == fs

\* list.sort(): the stable ascending order under __lt__
SortFoods(fs) == SortFrom(fs, 1, <<>>)

headers == << "name", "weight_g", "volume_ml", "calories_kcal", "fat_g", "carbs_g",
              "fiber_g", "sugars_g", "protein_g" >>

-----------------------------------------------------------------------------
(* Inputs of main. *)

FoodA ==
    [dataType |-> "Foundation", fdcId |-> 1, description |-> <<65>>,
     foodNutrients |-> << Protein1234 >>, foodPortions |-> << OneCup >>]

FoodB ==
    [dataType |-> "SR Legacy", fdcId |-> 2, description |-> <<66>>,
     foodNutrients |-> <<>>, foodPortions |-> <<>>]

FoodLowerA ==
    [dataType |-> "Foundation", fdcId |-> 3, description |-> <<97>>,
     foodNutrients |-> << Kcal5225 >>]

MainFoodInputs ==
    { FoodA, FoodB, FoodLowerA, Without(FoodB, "fdcId"), Without(FoodA, "description") }

DatasetInputs ==
    { [FoundationFoods |-> f, SRLegacyFoods |-> s] :
         f, s \in SeqsUpTo(MainFoodInputs, MaxFoods) }
    \cup { [FoundationFoods |-> f] : f \in SeqsUpTo(MainFoodInputs, MaxFoods) }
    \cup { [SRLegacyFoods |-> s] : s \in SeqsUpTo(MainFoodInputs, MaxFoods) }

-----------------------------------------------------------------------------
(* main, step by step. *)

InitMain ==
    /\ pc = "foundation"
    /\ raised = "none"
    /\ all_food_data \in DatasetInputs
    /\ foods = <<>>
    /\ f_idx = 1
    /\ out_opened = FALSE
    /\ out_rows = <<>>
    /\ food_nutrients = <<>>
    /\ macro_heaps = <<>>
    /\ n_idx = 1
    /\ selected = <<>>
    /\ macros = <<>>
    /\ food_data = <<>>
    /\ food = <<>>
    /\ macros_per_100_g = <<>>

\* one step of foods.extend(Food(source, f) for f in all_food_data[key])
Extend(key, source, next) ==
    IF key \notin DOMAIN all_food_data \/ f_idx > Len(all_food_data[key])
    THEN /\ pc' = next
         /\ f_idx' = 1
         /\ UNCHANGED <<raised, foods>>
    ELSE LET r == NewFood(source, all_food_data[key][f_idx])
         IN  IF r.raised # "none"
             THEN /\ raised' = r.raised
                  /\ pc' = "raised"
                  /\ UNCHANGED <<foods, f_idx>>
             ELSE /\ foods' = Append(foods, r.food)
                  /\ f_idx' = f_idx + 1
                  /\ UNCHANGED <<pc, raised>>

\* lines 170-171
ExtendFoundation ==
    /\ pc = "foundation"
    /\ Extend("FoundationFoods", "Foundation", "srlegacy")
    /\ UNCHANGED <<all_food_data, out_opened, out_rows, macroVars, foodVars>>

\* lines 173-174
ExtendSRLegacy ==
    /\ pc = "srlegacy"
    /\ Extend("SRLegacyFoods", "SR Legacy", "sort")
    /\ UNCHANGED <<all_food_data, out_opened, out_rows, macroVars, foodVars>>

\* line 176
Sort ==
    /\ pc = "sort"
    /\ foods' = SortFoods(foods)
    /\ pc' = "open"
    /\ UNCHANGED <<raised, all_food_data, f_idx, out_opened, out_rows, macroVars, foodVars>>

\* line 181, or lines 186-187: the writer on stdout or on the opened file
OpenOutput ==
    /\ pc = "open"
    /\ out_opened' = TRUE
    /\ pc' = "header"
    /\ UNCHANGED <<raised, all_food_data, foods, f_idx, out_rows, macroVars, foodVars>>

\* line 182, or line 188
WriteHeader ==
    /\ pc = "header"
    /\ out_rows' = Append(out_rows, headers)
    /\ f_idx' = 1
    /\ pc' = "rows"
    /\ UNCHANGED <<raised, all_food_data, foods, out_opened, macroVars, foodVars>>

\* lines 183-184, or lines 189-190: one food
WriteRow ==
    /\ pc = "rows"
    /\ f_idx <= Len(foods)
    /\ out_rows' = Append(out_rows, nutrition_record(foods[f_idx]))
    /\ f_idx' = f_idx + 1
    /\ UNCHANGED <<pc, raised, all_food_data, foods, out_opened, macroVars, foodVars>>

\* the loop over foods ends, main returns
Return ==
    /\ pc = "rows"
    /\ f_idx > Len(foods)
    /\ pc' = "done"
    /\ UNCHANGED <<raised, mainVars, macroVars, foodVars>>

NextMain ==
    \/ ExtendFoundation
    \/ ExtendSRLegacy
    \/ Sort
    \/ OpenOutput
    \/ WriteHeader
    \/ WriteRow
    \/ Return

SpecMain == InitMain /\ [][NextMain]_vars

-----------------------------------------------------------------------------
(* Properties of main (SpecMain). *)

CollectionOf(key) ==
    IF key \in DOMAIN all_food_data THEN all_food_data[key] ELSE <<>>

\* the food objects of both collections, FoundationFoods first
AllRawFoods == CollectionOf("FoundationFoods") \o CollectionOf("SRLegacyFoods")

MissesIdOrName(fd) == {"fdcId", "description"} \ DOMAIN fd # {}

NamesAscend(rows) ==
    \A k, m \in 1..Len(rows) : k < m => ~StrLt(rows[m][1], rows[k][1])

\* C8: while some food of either collection misses fdcId or description, the
\* output is never opened and no row, header included, is written; an aborted
\* run has written nothing; and whatever is written is written after every food
\* of both collections was constructed and the list sorted.
C8_NoPartialOutput ==
    /\ (\E i \in 1..Len(AllRawFoods) : MissesIdOrName(AllRawFoods[i]))
          => ~out_opened /\ out_rows = <<>>
    /\ pc = "raised" => ~out_opened /\ out_rows = <<>>
    /\ (out_opened \/ out_rows # <<>>) =>
          /\ Len(foods) = Len(AllRawFoods)
          /\ \A k, m \in 1..Len(foods) : k < m => ~StrLt(foods[m].name, foods[k].name)

\* the last food of the second collection misses its description: two foods were
\* constructed, then the run aborted with nothing opened or written
C8_Witness ==
    /\ pc = "raised"
    /\ raised = "KeyError"
    /\ CollectionOf("FoundationFoods") = << FoodA >>
    /\ CollectionOf("SRLegacyFoods") = << FoodB, Without(FoodA, "description") >>
    /\ Len(foods) = 2
    /\ ~out_opened
    /\ out_rows = <<>>

\* C9: when main returns, the rows after the header are one per food of the two
\* collections (a missing collection gives none), each food's record as often as
\* the input holds it, in non-decreasing order of name.
C9_RowsCompleteAndSorted ==
    pc = "done" =>
        LET rows == Tail(out_rows)
            recs == [i \in 1..Len(AllRawFoods) |->
                        nutrition_record(NewFood("Foundation", AllRawFoods[i]).food)]
        IN  /\ out_rows[1] = headers
            /\ Len(rows) = Len(AllRawFoods)
            /\ \A i \in 1..Len(recs) :
                  Cardinality({k \in 1..Len(rows) : rows[k] = recs[i]})
                      = Cardinality({k \in 1..Len(recs) : recs[k] = recs[i]})
            /\ NamesAscend(rows)

\* 'a' and 'A' in FoundationFoods, 'B' in SRLegacyFoods: written as A, B, a
C9_Witness ==
    /\ pc = "done"
    /\ CollectionOf("FoundationFoods") = << FoodLowerA, FoodA >>
    /\ CollectionOf("SRLegacyFoods") = << FoodB >>
    /\ Len(out_rows) = 4
    /\ out_rows[2][1] = <<65>>
    /\ out_rows[3][1] = <<66>>
    /\ out_rows[4][1] = <<97>>

====
